---- MODULE Spec2Model ----
(***************************************************************************)
(* Maze search engine of maze_solver: the MazeEnvironment grid and graph,  *)
(* the four search strategies (BreadthFirstSearch, DepthFirstSearch,       *)
(* GreedyBestFirstSearch, AStarSearch) as loop-iteration state machines,   *)
(* and SearchAlgorithmBase.run with its exception boundary.                *)
(* A run starts at the Environment's start cell (1, 1) and searches for    *)
(* any open cell of a bordered grid; one action is one iteration of the    *)
(* while loop of search(), or its return.                                  *)
(***************************************************************************)
EXTENDS Integers, Sequences, FiniteSets, TLC

\* ------------------------------------------------------------------ bounds
\* interior rows of the maze grid; it has one more interior column, and a
\* wall border around the interior
MaxRows == 2
MaxCols == MaxRows + 1
\* most interior wall cells of a generated grid
MaxWalls == 2
\* largest configured Config.max_steps
MaxLimit == 2
\* latest loop iteration at which an Environment callback may raise
MaxFaultStep == 2

\* ------------------------------------------------------- Python primitives
\* Python's None (an absent path, an absent parent, an absent max_steps)
None == <<>>

\* float("inf") as an effective step limit: the absent limit
Inf == <<>>

\* the algorithms (self.name)
Algorithms == {"BreadthFirstSearch", "DepthFirstSearch",
               "GreedyBestFirstSearch", "AStarSearch"}

Uninformed == {"BreadthFirstSearch", "DepthFirstSearch"}

\* iteration in an arbitrary order, as over a Python set
AnyOrder(l) ==
    { [i \in 1..Len(l) |-> l[q[i]]] :
        q \in {r \in [1..Len(l) -> 1..Len(l)] :
                 \A i, j \in 1..Len(l) : r[i] = r[j] => i = j} }

\* iterating a Python list visits its elements in list order, always
ListIter(l) == {l}

Reverse(s) == [i \in 1..Len(s) |-> s[Len(s) + 1 - i]]

SeqToSet(s) == {s[i] : i \in 1..Len(s)}

\* a dict used only for lookup: d[k] = v
FnSet(f, k, v) == [x \in (DOMAIN f) \cup {k} |-> IF x = k THEN v ELSE f[x]]

\* the del statement left out
FnDel_keep(f, k) == f

\* del d[k]
FnDel(f, k) == [x \in (DOMAIN f) \ {k} |-> f[x]]

\* a dict whose insertion order is observable: a sequence of <<key, value>>
DictKeys(d) == {d[i][1] : i \in 1..Len(d)}

DictGet(d, k) == d[CHOOSE i \in 1..Len(d) : d[i][1] = k][2]

DictSet(d, k, v) ==
    IF k \in DictKeys(d)
    THEN [i \in 1..Len(d) |-> IF d[i][1] = k THEN <<k, v>> ELSE d[i]]
    ELSE Append(d, <<k, v>>)

\* ------------------------------------------------------------ Environment
GridRows == MaxRows + 2
GridCols == MaxCols + 2

Positions == (0..(GridRows - 1)) \X (0..(GridCols - 1))

Interior == (1..MaxRows) \X (1..MaxCols)

\* grid.shape: <<rows, cols>> of a grid indexed from <<0, 0>>
shape(g) ==
    <<Cardinality({p[1] : p \in DOMAIN g}), Cardinality({p[2] : p \in DOMAIN g})>>

\* self.start = (1, 1)
env_start == <<1, 1>>

\* self.end = (self.grid.shape[0]-2, self.grid.shape[1]-2)
env_end(g) == <<shape(g)[1] - 2, shape(g)[2] - 2>>

\* the grids a maze generator hands over: 1 = wall, 0 = path, walled border,
\* the start cell open
Grids ==
    { [p \in Positions |-> IF p \in W \/ p \notin Interior THEN 1 ELSE 0] :
        W \in {V \in SUBSET (Interior \ {env_start}) :
                 Cardinality(V) <= MaxWalls} }

is_valid_move(g, state) ==
    IF \/ state[1] < 0 \/ state[1] >= shape(g)[1]
       \/ state[2] < 0 \/ state[2] >= shape(g)[2]
    THEN FALSE
    ELSE g[state] # 1

\* up, right, down, left
directions == << <<0 - 1, 0>>, <<0, 1>>, <<1, 0>>, <<0, 0 - 1>> >>

create_graph(g) ==
    [node \in {p \in DOMAIN g : g[p] # 1} |->
        SelectSeq([i \in 1..4 |-> <<node[1] + directions[i][1],
                                    node[2] + directions[i][2]>>],
                  LAMBDA n : is_valid_move(g, n))]

\* self.env.graph.get(node, [])
graph_get(gr, node) == IF node \in DOMAIN gr THEN gr[node] ELSE <<>>

Abs(x) == IF x < 0 THEN 0 - x ELSE x

calculate_manhattan_distance(state, goal_) ==
    Abs(state[1] - goal_[1]) + Abs(state[2] - goal_[2])

get_step_cost(state1, state2) == 1

\* ------------------------------------------------------------------ state
VARIABLES
    grid, graph,            \* env.grid, env.graph
    algorithm,              \* the strategy class that runs
    start, goal,            \* the arguments of run()
    max_steps,              \* config.max_steps: None or <<n>>
    show_exploration,       \* config.show_exploration
    fault_at,               \* loop iterations at which the Environment raises
    frontier, frontier_dict, visited, closed_set, visited_order, parent,
    g_value, node_discovery, node_expansion, node_h_value, node_g_value,
    node_f_value, exploration_history, steps,
    pc,                     \* "search", "returned" or "propagated"
    raised,                 \* search() raised an exception
    result,                 \* the SearchResult run() returned
    twin                    \* a second run of the same strategy and inputs

inputs == <<grid, graph, algorithm, start, goal, max_steps, show_exploration,
            fault_at>>

locals == <<frontier, frontier_dict, visited, closed_set, visited_order,
            parent, g_value, node_discovery, node_expansion, node_h_value,
            node_g_value, node_f_value, exploration_history, steps, pc,
            raised, result>>

vars == <<inputs, locals, twin>>

\* ---------------------------------------------------------- SearchResult
\* SearchResult(...) with the dataclass defaults
SearchResult(path, visited_, success, steps_, history, discovery, expansion) ==
    [path |-> path, visited |-> visited_, success |-> success,
     steps |-> steps_, exploration_history |-> history,
     node_discovery |-> discovery, node_expansion |-> expansion]

SearchResultDefault == SearchResult(None, <<>>, FALSE, 0, <<>>, <<>>, <<>>)

\* _calculate_avg_branching_factor, the quotient as <<dividend, divisor>>
calculate_avg_branching_factor(r) ==
    IF Len(r.node_expansion) <= 1 THEN <<0, 1>>
    ELSE IF Len(r.node_expansion) > 0
         THEN <<Len(r.node_discovery) - 1, Len(r.node_expansion)>>
         ELSE <<0, 1>>

\* _format_success_output: the f-strings are evaluated in order; len(None)
\* raises TypeError, a division by 0 raises ZeroDivisionError
format_success_output(r) ==
    IF calculate_avg_branching_factor(r)[2] = 0 THEN "ZeroDivisionError"
    ELSE IF r.path = None THEN "TypeError"
    ELSE IF r.steps = 0 THEN "ZeroDivisionError"
    ELSE IF Len(r.visited) = 0 THEN "ZeroDivisionError"
    ELSE "text"

\* _format_failure_output: len(self.visited) / self.steps and
\* self.execution_time / self.steps
format_failure_output(r) ==
    IF calculate_avg_branching_factor(r)[2] = 0 THEN "ZeroDivisionError"
    ELSE IF r.steps = 0 THEN "ZeroDivisionError"
    ELSE "text"

\* SearchResult.__str__: "text" when a string is returned, else the
\* exception that leaves it
str(r) ==
    IF r.success THEN format_success_output(r) ELSE format_failure_output(r)

\* SearchResult.to_dict: nodes_per_step as <<dividend, divisor>>, the
\* division guarded by steps > 0
to_dict(r) ==
    [success |-> r.success, steps |-> r.steps,
     path_length |-> IF r.path # None THEN <<Len(r.path)>> ELSE None,
     visited_nodes |-> Len(r.visited),
     avg_branching_factor |-> calculate_avg_branching_factor(r),
     nodes_per_step |-> IF r.steps > 0 THEN <<Len(r.visited), r.steps>>
                        ELSE <<0, 1>>]

RECURSIVE walk_parents_stop_early(_, _, _, _)
\* the walk that stops one cell before start (while parent[current] != start)
walk_parents_stop_early(parent_, start_, current, path) ==
    IF current = start_ THEN path
    ELSE IF parent_[current] = start_ THEN path
    ELSE walk_parents_stop_early(parent_, start_, parent_[current],
                                 Append(path, parent_[current]))

RECURSIVE walk_parents(_, _, _, _)
walk_parents(parent_, start_, current, path) ==
    IF current = start_ THEN path
    ELSE walk_parents(parent_, start_, parent_[current],
                      Append(path, parent_[current]))

\* the walk from goal to start, not reversed
reconstruct_path_unreversed(parent_, start_, goal_) ==
    walk_parents(parent_, start_, goal_, <<goal_>>)

reconstruct_path(parent_, start_, goal_) ==
    Reverse(walk_parents(parent_, start_, goal_, <<goal_>>))

\* only an absent limit is unbounded
effective_max_steps_none_only(ms) == IF ms # None THEN ms ELSE Inf

\* max_steps = self.config.max_steps or float("inf")
effective_max_steps(ms) == IF ms # None /\ ms[1] # 0 THEN ms ELSE Inf

\* steps <= max_steps
steps_below_inclusive(steps_, limit) ==
    IF limit = Inf THEN TRUE ELSE steps_ <= limit[1]

\* steps + 1 < max_steps
steps_below_early(steps_, limit) ==
    IF limit = Inf THEN TRUE ELSE steps_ + 1 < limit[1]

\* steps < max_steps
steps_below(steps_, limit) ==
    IF limit = Inf THEN TRUE ELSE steps_ < limit[1]

\* while len(frontier) > 1 and steps < max_steps
loop_condition_leaves_one(s) ==
    Len(s.frontier) > 1 /\ steps_below(s.steps, effective_max_steps(max_steps))

\* while frontier and steps < max_steps
loop_condition(s) ==
    s.frontier # <<>> /\ steps_below(s.steps, effective_max_steps(max_steps))

\* the locals of one search() call, as a record
Cur ==
    [frontier |-> frontier, frontier_dict |-> frontier_dict,
     visited |-> visited, closed_set |-> closed_set,
     visited_order |-> visited_order, parent |-> parent,
     g_value |-> g_value, node_discovery |-> node_discovery,
     node_expansion |-> node_expansion, node_h_value |-> node_h_value,
     node_g_value |-> node_g_value, node_f_value |-> node_f_value,
     exploration_history |-> exploration_history, steps |-> steps,
     pc |-> pc, raised |-> raised, result |-> result]

Install(t) ==
    /\ frontier' = t.frontier
    /\ frontier_dict' = t.frontier_dict
    /\ visited' = t.visited
    /\ closed_set' = t.closed_set
    /\ visited_order' = t.visited_order
    /\ parent' = t.parent
    /\ g_value' = t.g_value
    /\ node_discovery' = t.node_discovery
    /\ node_expansion' = t.node_expansion
    /\ node_h_value' = t.node_h_value
    /\ node_g_value' = t.node_g_value
    /\ node_f_value' = t.node_f_value
    /\ exploration_history' = t.exploration_history
    /\ steps' = t.steps
    /\ pc' = t.pc
    /\ raised' = t.raised
    /\ result' = t.result

\* the result built without the node_discovery / node_expansion arguments
create_search_result_no_maps(s, path, success) ==
    [s EXCEPT !.pc = "returned",
              !.result = SearchResult(path, s.visited_order, success, s.steps,
                                      s.exploration_history, <<>>, <<>>)]

\* create_search_result(...) followed by run() handing the result back
create_search_result(s, path, success) ==
    [s EXCEPT !.pc = "returned",
              !.result = SearchResult(path, s.visited_order, success, s.steps,
                                      s.exploration_history, s.node_discovery,
                                      s.node_expansion)]

\* ------------------------------------------------------ uninformed search
initialize_frontier(alg, start_) == <<start_>>

\* frontier.pop() for both strategies
get_next_node_pop_right(alg, fr) ==
    <<fr[Len(fr)], SubSeq(fr, 1, Len(fr) - 1)>>

\* frontier.popleft() for both strategies
get_next_node_pop_left(alg, fr) == <<Head(fr), Tail(fr)>>

\* BFS: frontier.popleft(); DFS: frontier.pop(): <<the node, the frontier left>>
get_next_node(alg, fr) ==
    IF alg = "BreadthFirstSearch"
    THEN <<Head(fr), Tail(fr)>>
    ELSE <<fr[Len(fr)], SubSeq(fr, 1, Len(fr) - 1)>>

\* frontier.appendleft(node)
add_to_frontier_left(fr, node) == <<node>> \o fr

\* frontier.append(node), BFS and DFS
add_to_frontier(fr, node) == Append(fr, node)

frontier_representation(fr) == fr

uninformed_init(alg, start_) ==
    [frontier |-> initialize_frontier(alg, start_), frontier_dict |-> <<>>,
     visited |-> {start_}, closed_set |-> {},
     visited_order |-> <<start_>>, parent |-> FnSet(<<>>, start_, None),
     g_value |-> <<>>, node_discovery |-> <<<<start_, 0>>>>,
     node_expansion |-> <<>>, node_h_value |-> <<>>,
     node_g_value |-> <<>>, node_f_value |-> <<>>,
     exploration_history |-> <<>>, steps |-> 0,
     pc |-> "search", raised |-> FALSE, result |-> SearchResultDefault]

RECURSIVE uninformed_neighbors_revisit(_, _, _, _)
\* the neighbor loop without the visited test
uninformed_neighbors_revisit(s, current_node, nbrs, added) ==
    IF nbrs = <<>> THEN <<s, added>>
    ELSE LET neighbor == Head(nbrs) IN
         uninformed_neighbors_revisit(
            [s EXCEPT !.visited = @ \cup {neighbor},
                      !.visited_order = Append(@, neighbor),
                      !.parent = FnSet(@, neighbor, current_node),
                      !.frontier = Append(@, neighbor),
                      !.node_discovery = DictSet(@, neighbor, s.steps)],
            current_node, Tail(nbrs), Append(added, neighbor))

RECURSIVE uninformed_neighbors_mark_late(_, _, _, _)
\* the neighbor loop that leaves marking a cell visited to its expansion
uninformed_neighbors_mark_late(s, current_node, nbrs, added) ==
    IF nbrs = <<>> THEN <<[s EXCEPT !.visited = @ \cup {current_node}], added>>
    ELSE LET neighbor == Head(nbrs) IN
         IF neighbor \notin s.visited
         THEN uninformed_neighbors_mark_late(
                [s EXCEPT !.visited_order = Append(@, neighbor),
                          !.parent = FnSet(@, neighbor, current_node),
                          !.frontier = Append(@, neighbor),
                          !.node_discovery = DictSet(@, neighbor, s.steps)],
                current_node, Tail(nbrs), Append(added, neighbor))
         ELSE uninformed_neighbors_mark_late(s, current_node, Tail(nbrs), added)

\* the for loop over the neighbors of current_node
RECURSIVE uninformed_neighbors(_, _, _, _)
uninformed_neighbors(s, current_node, nbrs, added) ==
    IF nbrs = <<>> THEN <<s, added>>
    ELSE LET neighbor == Head(nbrs) IN
         IF neighbor \notin s.visited
         THEN uninformed_neighbors(
                [s EXCEPT !.visited = @ \cup {neighbor},
                          !.visited_order = Append(@, neighbor),
                          !.parent = FnSet(@, neighbor, current_node),
                          !.frontier = add_to_frontier(@, neighbor),
                          !.node_discovery = DictSet(@, neighbor, s.steps)],
                current_node, Tail(nbrs), Append(added, neighbor))
         ELSE uninformed_neighbors(s, current_node, Tail(nbrs), added)

\* the history append made whether or not tracing is enabled
record_history_always(s, show, record) ==
    [s EXCEPT !.exploration_history = Append(@, record)]

\* if self.config.show_exploration: exploration_history.append(...)
record_history(s, show, record) ==
    IF show THEN [s EXCEPT !.exploration_history = Append(@, record)] ELSE s

uninformed_step_info(current_node, steps_, neighbors_added, before, after) ==
    [step |-> steps_, expanded_node |-> current_node,
     neighbors_added |-> neighbors_added,
     frontier_before |-> before, frontier_after |-> after]

\* one iteration of the while loop of UninformedSearch.search, the
\* neighbors of the extracted node iterated in the order nbrs
uninformed_body(alg, s, show, nbrs) ==
    LET frontier_before ==
            IF show THEN frontier_representation(s.frontier) ELSE None
        current_node == get_next_node(alg, s.frontier)[1]
        s1 == [s EXCEPT !.steps = @ + 1,
                        !.frontier = get_next_node(alg, @)[2],
                        !.node_expansion = DictSet(@, current_node, s.steps + 1)]
    IN  IF current_node = goal
        THEN create_search_result(s1,
                 reconstruct_path(s1.parent, start, goal), TRUE)
        ELSE LET r == uninformed_neighbors(s1, current_node, nbrs, <<>>)
                 s2 == r[1]
                 current_partial_path ==
                     IF current_node # start
                     THEN reconstruct_path(s2.parent, start, current_node)
                     ELSE <<start>>
             IN  record_history(s2, show,
                         [closed |-> s2.visited,
                          frontier |-> frontier_representation(s2.frontier),
                          path |-> current_partial_path,
                          step_info |-> uninformed_step_info(current_node,
                              s2.steps, r[2], frontier_before,
                              frontier_representation(s2.frontier))])

uninformed_iteration(alg, s, show) ==
    { uninformed_body(alg, s, show, nbrs) :
        nbrs \in ListIter(graph_get(graph, get_next_node(alg, s.frontier)[1])) }

\* -------------------------------------------------------- informed search
\* lexicographic order of two sort keys of equal length (Python tuples)
key_less(a, b) ==
    \E i \in 1..Len(a) : a[i] < b[i] /\ \A j \in 1..(i - 1) : a[j] = b[j]

\* list.sort(key=...): ascending by key, equal keys keep their list order;
\* keys[i] is the key of seq[i]
stable_sort(seq, keys) ==
    LET n == Len(seq)
        before(j, i) == key_less(keys[j], keys[i]) \/ (keys[j] = keys[i] /\ j < i)
        rank(i) == Cardinality({j \in 1..n : before(j, i)}) + 1
    IN  [r \in 1..n |-> seq[CHOOSE i \in 1..n : rank(i) = r]]

\* InformedSearch._initialize_metrics and the tracking variables of search()
informed_init(alg, start_, goal_, f_start, first_entry) ==
    [frontier |-> <<first_entry>>,
     frontier_dict |-> FnSet(<<>>, start_, f_start),
     visited |-> {}, closed_set |-> {},
     visited_order |-> <<start_>>, parent |-> FnSet(<<>>, start_, None),
     g_value |-> FnSet(<<>>, start_, 0),
     node_discovery |-> <<<<start_, 0>>>>, node_expansion |-> <<>>,
     node_h_value |-> FnSet(<<>>, start_,
                            calculate_manhattan_distance(start_, goal_)),
     node_g_value |-> FnSet(<<>>, start_, 0),
     node_f_value |-> FnSet(<<>>, start_, f_start),
     exploration_history |-> <<>>, steps |-> 0,
     pc |-> "search", raised |-> FALSE, result |-> SearchResultDefault]

informed_step_info(s, current_node, neighbors_added, before, after) ==
    [step |-> s.steps, expanded_node |-> current_node,
     expanded_node_f |-> s.node_f_value[current_node],
     expanded_node_g |-> s.node_g_value[current_node],
     expanded_node_h |-> s.node_h_value[current_node],
     neighbors_added |-> neighbors_added,
     frontier_before |-> before, frontier_after |-> after]

\* node_discovery[neighbor] = steps on every update
record_discovery_overwrite(discovery, neighbor, steps_) ==
    DictSet(discovery, neighbor, steps_)

\* if neighbor not in node_discovery: node_discovery[neighbor] = steps
record_discovery(discovery, neighbor, steps_) ==
    IF neighbor \in DictKeys(discovery) THEN discovery
    ELSE DictSet(discovery, neighbor, steps_)

\* no neighbor counts as expanded
in_closed_set_never(neighbor, closed_set_) == FALSE

\* if neighbor in closed_set: continue
in_closed_set(neighbor, closed_set_) == neighbor \in closed_set_

\* ---- A*
a_star_calculate_f(g, h) == g + h

\* neighbor not in frontier_dict, the comparison of g left out
a_star_should_update_node_new_only(neighbor, tentative_g, g_value_, frontier_dict_) ==
    neighbor \notin DOMAIN frontier_dict_

\* tentative_g <= g_value.get(neighbor, float('inf'))
a_star_should_update_node_le(neighbor, tentative_g, g_value_, frontier_dict_) ==
    \/ neighbor \notin DOMAIN frontier_dict_
    \/ neighbor \notin DOMAIN g_value_
    \/ tentative_g <= g_value_[neighbor]

a_star_should_update_node(neighbor, tentative_g, g_value_, frontier_dict_) ==
    \/ neighbor \notin DOMAIN frontier_dict_
    \/ neighbor \notin DOMAIN g_value_
    \/ tentative_g < g_value_[neighbor]

\* frontier.sort(key=lambda x: x[0])
a_star_sort_f_only(fr) == stable_sort(fr, [i \in 1..Len(fr) |-> <<fr[i][1]>>])

\* frontier.sort(key=lambda x: (x[0], -x[1]))
a_star_sort(fr) ==
    stable_sort(fr, [i \in 1..Len(fr) |-> <<fr[i][1], 0 - fr[i][2]>>])

\* frontier.sort(...); frontier.pop()
a_star_pop_last(fr) ==
    LET sorted == a_star_sort(fr)
    IN  <<sorted[Len(sorted)], SubSeq(sorted, 1, Len(sorted) - 1)>>

\* frontier.sort(...); frontier.pop(0): <<the entry, the frontier left>>
a_star_pop(fr) == <<Head(a_star_sort(fr)), Tail(a_star_sort(fr))>>

a_star_init(start_, goal_) ==
    LET f_start == a_star_calculate_f(0,
                       calculate_manhattan_distance(start_, goal_))
    IN  informed_init("AStarSearch", start_, goal_, f_start,
                      <<f_start, 0, start_>>)

\* the old entry is left in the frontier
a_star_remove_entry_keep(fr, neighbor) == fr

\* frontier = [(f_val, g_val, n) for f_val, g_val, n in frontier if n != neighbor]
a_star_remove_entry(fr, neighbor) == SelectSeq(fr, LAMBDA e : e[3] # neighbor)

RECURSIVE a_star_neighbors(_, _, _, _)
a_star_neighbors(s, current_node, nbrs, added) ==
    IF nbrs = <<>> THEN <<s, added>>
    ELSE
    LET neighbor == Head(nbrs)
        tentative_g == s.g_value[current_node]
                         + get_step_cost(current_node, neighbor)
        h == calculate_manhattan_distance(neighbor, goal)
        f == a_star_calculate_f(tentative_g, h)
        known == neighbor \in DictKeys(s.node_discovery)
        kept == IF neighbor \in DOMAIN s.frontier_dict
                THEN a_star_remove_entry(s.frontier, neighbor)
                ELSE s.frontier
    IN  IF in_closed_set(neighbor, s.closed_set)
        THEN a_star_neighbors(s, current_node, Tail(nbrs), added)
        ELSE IF a_star_should_update_node(neighbor, tentative_g, s.g_value,
                                          s.frontier_dict)
        THEN a_star_neighbors(
               [s EXCEPT
                  !.parent = FnSet(@, neighbor, current_node),
                  !.g_value = FnSet(@, neighbor, tentative_g),
                  !.node_discovery = record_discovery(@, neighbor, s.steps),
                  !.visited_order = IF known THEN @ ELSE Append(@, neighbor),
                  !.node_h_value = FnSet(@, neighbor, h),
                  !.node_g_value = FnSet(@, neighbor, tentative_g),
                  !.node_f_value = FnSet(@, neighbor, f),
                  !.frontier = Append(kept, <<f, tentative_g, neighbor>>),
                  !.frontier_dict = FnSet(@, neighbor, f)],
               current_node, Tail(nbrs),
               Append(added, <<f, tentative_g, neighbor>>))
        ELSE a_star_neighbors(s, current_node, Tail(nbrs), added)

\* one iteration of the while loop of AStarSearch.search
a_star_body(s, show, nbrs) ==
    LET popped == a_star_pop(s.frontier)
        current_node == popped[1][3]
        s1 == [s EXCEPT !.steps = @ + 1,
                        !.frontier = popped[2],
                        !.frontier_dict = FnDel(@, current_node),
                        !.closed_set = @ \cup {current_node},
                        !.node_expansion = DictSet(@, current_node, s.steps + 1)]
        frontier_before == IF show THEN s1.frontier ELSE None
    IN  IF current_node = goal
        THEN create_search_result(s1,
                 reconstruct_path(s1.parent, start, goal), TRUE)
        ELSE LET r == a_star_neighbors(s1, current_node, nbrs, <<>>)
                 s2 == r[1]
                 current_partial_path ==
                     IF current_node # start
                     THEN reconstruct_path(s2.parent, start, current_node)
                     ELSE <<start>>
             IN  record_history(s2, show,
                         [closed |-> s2.closed_set,
                          frontier |-> s2.frontier,
                          path |-> current_partial_path,
                          step_info |-> informed_step_info(s2, current_node,
                              r[2], frontier_before, s2.frontier)])

a_star_iteration(s, show) ==
    { a_star_body(s, show, nbrs) :
        nbrs \in ListIter(graph_get(graph, a_star_pop(s.frontier)[1][3])) }

\* ---- Greedy best-first
greedy_calculate_f(g, h) == h

\* update also when a cheaper route to a frontier cell is found
greedy_should_update_node_better(neighbor, tentative_g, g_value_, frontier_dict_) ==
    \/ neighbor \notin DOMAIN frontier_dict_
    \/ neighbor \notin DOMAIN g_value_
    \/ tentative_g < g_value_[neighbor]

greedy_should_update_node(neighbor, tentative_g, g_value_, frontier_dict_) ==
    neighbor \notin DOMAIN frontier_dict_

\* frontier.sort(): entries compared as tuples (h, (row, col))
greedy_sort_by_tuple(fr) ==
    stable_sort(fr, [i \in 1..Len(fr) |-> <<fr[i][1], fr[i][2][1], fr[i][2][2]>>])

\* frontier.sort(key=lambda x: x[0])
greedy_sort(fr) == stable_sort(fr, [i \in 1..Len(fr) |-> <<fr[i][1]>>])

\* frontier.pop(0) of the sorted frontier: <<the entry, the frontier left>>
greedy_pop(fr) == <<Head(greedy_sort(fr)), Tail(greedy_sort(fr))>>

greedy_init(start_, goal_) ==
    LET h_start == calculate_manhattan_distance(start_, goal_)
    IN  informed_init("GreedyBestFirstSearch", start_, goal_,
                      greedy_calculate_f(0, h_start), <<h_start, start_>>)

RECURSIVE greedy_neighbors(_, _, _, _)
greedy_neighbors(s, current_node, nbrs, added) ==
    IF nbrs = <<>> THEN <<s, added>>
    ELSE
    LET neighbor == Head(nbrs)
        tentative_g == s.g_value[current_node]
                         + get_step_cost(current_node, neighbor)
        h == calculate_manhattan_distance(neighbor, goal)
        f == greedy_calculate_f(tentative_g, h)
        known == neighbor \in DictKeys(s.node_discovery)
        kept == IF neighbor \in DOMAIN s.frontier_dict
                THEN SelectSeq(s.frontier, LAMBDA e : e[2] # neighbor)
                ELSE s.frontier
    IN  IF in_closed_set(neighbor, s.closed_set)
        THEN greedy_neighbors(s, current_node, Tail(nbrs), added)
        ELSE IF greedy_should_update_node(neighbor, tentative_g, s.g_value,
                                          s.frontier_dict)
        THEN greedy_neighbors(
               [s EXCEPT
                  !.parent = FnSet(@, neighbor, current_node),
                  !.g_value = FnSet(@, neighbor, tentative_g),
                  !.node_discovery = record_discovery(@, neighbor, s.steps),
                  !.visited_order = IF known THEN @ ELSE Append(@, neighbor),
                  !.node_h_value = FnSet(@, neighbor, h),
                  !.node_g_value = FnSet(@, neighbor, tentative_g),
                  !.node_f_value = FnSet(@, neighbor, f),
                  !.frontier = Append(kept, <<f, neighbor>>),
                  !.frontier_dict = FnSet(@, neighbor, f)],
               current_node, Tail(nbrs), Append(added, <<f, neighbor>>))
        ELSE greedy_neighbors(s, current_node, Tail(nbrs), added)

\* one iteration of the while loop of GreedyBestFirstSearch.search
greedy_body(s, show, nbrs) ==
    LET sorted == greedy_sort(s.frontier)
        frontier_before == IF show THEN sorted ELSE None
        popped == greedy_pop(s.frontier)
        current_node == popped[1][2]
        s1 == [s EXCEPT !.steps = @ + 1,
                        !.frontier = popped[2],
                        !.frontier_dict = FnDel(@, current_node),
                        !.closed_set = @ \cup {current_node},
                        !.node_expansion = DictSet(@, current_node, s.steps + 1)]
    IN  IF current_node = goal
        THEN create_search_result(s1,
                 reconstruct_path(s1.parent, start, goal), TRUE)
        ELSE LET r == greedy_neighbors(s1, current_node, nbrs, <<>>)
                 s2 == r[1]
                 current_partial_path ==
                     IF current_node # start
                     THEN reconstruct_path(s2.parent, start, current_node)
                     ELSE <<start>>
             IN  record_history(s2, show,
                         [closed |-> s2.closed_set,
                          frontier |-> s2.frontier,
                          path |-> current_partial_path,
                          step_info |-> informed_step_info(s2, current_node,
                              r[2], frontier_before, s2.frontier)])

greedy_iteration(s, show) ==
    { greedy_body(s, show, nbrs) :
        nbrs \in ListIter(graph_get(graph, greedy_pop(s.frontier)[1][2])) }

\* ------------------------------------------------------------- the search
\* the state of search() before its loop
search_init(alg, start_, goal_) ==
    IF alg \in Uninformed THEN uninformed_init(alg, start_)
    ELSE IF alg = "AStarSearch" THEN a_star_init(start_, goal_)
    ELSE greedy_init(start_, goal_)

\* the successors of s by one loop iteration of alg's search()
search_iteration(alg, s, show) ==
    IF alg \in Uninformed THEN uninformed_iteration(alg, s, show)
    ELSE IF alg = "AStarSearch" THEN a_star_iteration(s, show)
    ELSE greedy_iteration(s, show)

\* a bare SearchResult(success=False) after the loop
search_no_path_default(s) ==
    [s EXCEPT !.pc = "returned", !.result = SearchResultDefault]

\* the return after the loop: no path found
search_no_path(s) == create_search_result(s, None, FALSE)

\* run() without the except clause: the exception leaves run()
run_no_except(s) == [s EXCEPT !.pc = "propagated", !.raised = TRUE]

\* run(): except Exception -> SearchResult(success=False)
run_except(s) ==
    [s EXCEPT !.pc = "returned", !.raised = TRUE,
              !.result = SearchResultDefault]

\* an Environment callback raises in the loop iteration that follows s
fault_due(s) == s.steps \in fault_at

\* one step of a run: a loop iteration, the exit of the loop, or a fault
run_step(alg, s, show) ==
    IF s.pc # "search" THEN {s}
    ELSE IF ~loop_condition(s) THEN {search_no_path(s)}
    ELSE IF fault_due(s) THEN {run_except(s)}
    ELSE search_iteration(alg, s, show)

\* ------------------------------------------------------------ transitions
InitInputs ==
    /\ grid \in Grids
    /\ graph = create_graph(grid)
    /\ algorithm \in Algorithms
    /\ start = env_start
    /\ goal \in DOMAIN graph
    /\ max_steps \in {None} \cup {<<n>> : n \in 0..MaxLimit}
    /\ show_exploration \in BOOLEAN

InitLocals(t) ==
    /\ frontier = t.frontier
    /\ frontier_dict = t.frontier_dict
    /\ visited = t.visited
    /\ closed_set = t.closed_set
    /\ visited_order = t.visited_order
    /\ parent = t.parent
    /\ g_value = t.g_value
    /\ node_discovery = t.node_discovery
    /\ node_expansion = t.node_expansion
    /\ node_h_value = t.node_h_value
    /\ node_g_value = t.node_g_value
    /\ node_f_value = t.node_f_value
    /\ exploration_history = t.exploration_history
    /\ steps = t.steps
    /\ pc = t.pc
    /\ raised = t.raised
    /\ result = t.result

InitRun(t) ==
    /\ InitLocals(t)
    /\ twin = t

Init ==
    /\ InitInputs
    /\ fault_at = {}
    /\ InitRun(search_init(algorithm, start, goal))

\* the Environment raises in one loop iteration
InitFault ==
    /\ InitInputs
    /\ fault_at \in {{k} : k \in 0..MaxFaultStep}
    /\ InitRun(search_init(algorithm, start, goal))

\* the second run takes its step alongside the first
TwinStep == twin' \in run_step(algorithm, twin, show_exploration)

Iterate(algs) ==
    /\ pc = "search"
    /\ algorithm \in algs
    /\ loop_condition(Cur)
    /\ ~fault_due(Cur)
    /\ \E t \in search_iteration(algorithm, Cur, show_exploration) : Install(t)
    /\ TwinStep
    /\ UNCHANGED inputs

UninformedStep == Iterate(Uninformed)

AStarStep == Iterate({"AStarSearch"})

GreedyStep == Iterate({"GreedyBestFirstSearch"})

\* the loop ends without the goal: empty frontier or step limit
NoPath ==
    /\ pc = "search"
    /\ ~loop_condition(Cur)
    /\ Install(search_no_path(Cur))
    /\ TwinStep
    /\ UNCHANGED inputs

\* search() raises and run() catches
Raise ==
    /\ pc = "search"
    /\ loop_condition(Cur)
    /\ fault_due(Cur)
    /\ Install(run_except(Cur))
    /\ TwinStep
    /\ UNCHANGED inputs

Next == UninformedStep \/ AStarStep \/ GreedyStep \/ NoPath

Spec == Init /\ [][Next]_vars

NextFault == UninformedStep \/ AStarStep \/ GreedyStep \/ NoPath \/ Raise

SpecFault == InitFault /\ [][NextFault]_vars

\* ---- a traced run next to the same run with tracing disabled
InitTracing ==
    /\ InitInputs
    /\ show_exploration = TRUE
    /\ fault_at = {}
    /\ InitRun(search_init(algorithm, start, goal))

\* the second run has config.show_exploration = False
UntracedStep == twin' \in run_step(algorithm, twin, FALSE)

TracedIterate ==
    /\ pc = "search"
    /\ loop_condition(Cur)
    /\ \E t \in search_iteration(algorithm, Cur, show_exploration) : Install(t)
    /\ UntracedStep
    /\ UNCHANGED inputs

TracedNoPath ==
    /\ pc = "search"
    /\ ~loop_condition(Cur)
    /\ Install(search_no_path(Cur))
    /\ UntracedStep
    /\ UNCHANGED inputs

NextTracing == TracedIterate \/ TracedNoPath

SpecTracing == InitTracing /\ [][NextTracing]_vars

\* ---- AStarSearch next to BreadthFirstSearch on the open 5x5 grid
\* the 5x5 grid whose interior cells are all open
open_grid ==
    [p \in (0..4) \X (0..4) |->
        IF p[1] \in 1..3 /\ p[2] \in 1..3 THEN 0 ELSE 1]

InitOpenGrid ==
    /\ grid = open_grid
    /\ graph = create_graph(grid)
    /\ algorithm = "AStarSearch"
    /\ start = env_start
    /\ goal \in DOMAIN graph
    /\ max_steps \in {None} \cup {<<n>> : n \in 0..MaxLimit}
    /\ show_exploration \in BOOLEAN
    /\ fault_at = {}
    /\ InitLocals(search_init("AStarSearch", start, goal))
    /\ twin = search_init("BreadthFirstSearch", start, goal)

\* both runs take a step of their run(), a returned run staying as it is
CompareStep ==
    /\ pc = "search" \/ twin.pc = "search"
    /\ \E t \in run_step("AStarSearch", Cur, show_exploration) : Install(t)
    /\ twin' \in run_step("BreadthFirstSearch", twin, show_exploration)
    /\ UNCHANGED inputs

NextOpenGrid == CompareStep

SpecOpenGrid == InitOpenGrid /\ [][NextOpenGrid]_vars

\* ---- the four strategies on the mazes of a 6x6 grid and on some of a 6x7
\* grid, no step limit and no tracing
WidePositions == (0..5) \X (0..5)

WideInterior == (1..4) \X (1..4)

\* the 6x6 grids with a walled border and at most MaxWalls interior walls
WideGrids ==
    { [p \in WidePositions |-> IF p \in W \/ p \notin WideInterior THEN 1 ELSE 0] :
        W \in {V \in SUBSET (WideInterior \ {env_start}) :
                 Cardinality(V) <= MaxWalls} }

\* the walls of a 6x7 grid on which Greedy reaches a frontier cell a second
\* time by a cheaper route
DetourWalls == {<<1, 4>>, <<2, 2>>, <<2, 5>>, <<3, 3>>}

\* the 6x7 grids with a walled border and interior walls among DetourWalls
DetourGrids ==
    { [p \in (0..5) \X (0..6) |->
         IF p \in W \/ p \notin (1..4) \X (1..5) THEN 1 ELSE 0] :
        W \in SUBSET DetourWalls }

InitWide ==
    /\ grid \in WideGrids \cup DetourGrids
    /\ graph = create_graph(grid)
    /\ algorithm \in Algorithms
    /\ start = env_start
    /\ goal \in DOMAIN graph
    /\ max_steps = None
    /\ show_exploration = FALSE
    /\ fault_at = {}
    /\ InitRun(search_init(algorithm, start, goal))

SpecWide == InitWide /\ [][Next]_vars

\* ============================================================ properties
\* ---- runs without a step limit; run() executes search() to completion on
\* one thread, so an enabled loop iteration or return is eventually taken
InitUnlimited ==
    /\ InitInputs
    /\ max_steps \in {None, <<0>>}
    /\ show_exploration = FALSE
    /\ fault_at = {}
    /\ InitRun(search_init(algorithm, start, goal))

SpecUnlimited == InitUnlimited /\ [][Next]_vars /\ WF_vars(Next)

\* ------------------------------------------------- reference definitions
RECURSIVE Within(_, _, _)
\* the cells at most k moves from s
Within(gr, s, k) ==
    IF k = 0 THEN {s}
    ELSE LET W == Within(gr, s, k - 1)
         IN  W \cup {n \in DOMAIN gr : \E m \in W : n \in SeqToSet(graph_get(gr, m))}

Reachable(gr, s) == Within(gr, s, Cardinality(DOMAIN gr))

\* the least number of moves from s to g, g reachable
ShortestHops(gr, s, g) ==
    CHOOSE k \in 0..Cardinality(DOMAIN gr) :
        /\ g \in Within(gr, s, k)
        /\ \A j \in 0..(k - 1) : g \notin Within(gr, s, j)

SetMin(S) == CHOOSE x \in S : \A y \in S : x <= y

RECURSIVE MinCosts(_, _, _)
\* the pairs <<cell, least cost of a walk of at most k moves from s to it>>
MinCosts(gr, s, k) ==
    IF k = 0 THEN {<<s, 0>>}
    ELSE LET D == MinCosts(gr, s, k - 1)
             cand(n) ==
                 {d[2] + get_step_cost(d[1], n) :
                     d \in {x \in D : n \in SeqToSet(graph_get(gr, x[1]))}}
                 \cup {d[2] : d \in {x \in D : x[1] = n}}
         IN  {<<n, SetMin(cand(n))>> : n \in {x \in DOMAIN gr : cand(x) # {}}}

MinPathCost(gr, s, g) ==
    LET D == MinCosts(gr, s, Cardinality(DOMAIN gr))
    IN  (CHOOSE d \in D : d[1] = g)[2]

RECURSIVE PathCost(_)
PathCost(p) ==
    IF Len(p) <= 1 THEN 0
    ELSE get_step_cost(p[1], p[2]) + PathCost(Tail(p))

Unlimited == effective_max_steps(max_steps) = Inf

Returned == pc = "returned" /\ ~raised

\* ---------------------------------------------------------------- C1
\* C1: whenever a search returns success, the path starts at start, ends at
\* goal, each cell is followed by one of its neighbors in the graph, and no
\* cell occurs twice (all four strategies).
PathValid ==
    (pc = "returned" /\ result.success) =>
        LET p == result.path IN
        /\ Len(p) >= 1
        /\ p[1] = start
        /\ p[Len(p)] = goal
        /\ \A i \in 1..(Len(p) - 1) : p[i + 1] \in SeqToSet(graph_get(graph, p[i]))
        /\ \A i, j \in 1..Len(p) : i # j => p[i] # p[j]

PathValidWitness ==
    pc = "returned" /\ result.success /\ Len(result.path) >= 4

\* ---------------------------------------------------------------- C2
\* C2: with no step limit and a reachable goal, BreadthFirstSearch returns a
\* path whose number of edges is the shortest hop count from start to goal.
BFSShortest ==
    (Returned /\ algorithm = "BreadthFirstSearch" /\ Unlimited
       /\ goal \in Reachable(graph, start)) =>
        /\ result.success
        /\ Len(result.path) - 1 = ShortestHops(graph, start, goal)

BFSShortestWitness ==
    /\ Returned /\ algorithm = "BreadthFirstSearch" /\ Unlimited
    /\ result.success
    /\ Len(result.path) - 1 > calculate_manhattan_distance(start, goal)

\* ---------------------------------------------------------------- C3
\* C3: with unit step costs, the Manhattan heuristic, no step limit and a
\* reachable goal, the cost of the path AStarSearch returns is the minimum
\* path cost from start to goal.
AStarOptimal ==
    (Returned /\ algorithm = "AStarSearch" /\ Unlimited
       /\ goal \in Reachable(graph, start)) =>
        /\ result.success
        /\ PathCost(result.path) = MinPathCost(graph, start, goal)

AStarOptimalWitness ==
    /\ Returned /\ algorithm = "AStarSearch" /\ Unlimited
    /\ result.success
    /\ PathCost(result.path) > calculate_manhattan_distance(start, goal)

\* ---------------------------------------------------------------- C4
\* C4: when search() raises, run() does not let the exception out: it
\* returns a result with success = false, steps = 0 and no path.
RunCatches ==
    /\ pc # "propagated"
    /\ raised =>
        /\ pc = "returned"
        /\ result.success = FALSE
        /\ result.steps = 0
        /\ result.path = None

RunCatchesWitness ==
    raised /\ pc = "returned" /\ steps >= 1 /\ Len(visited_order) >= 2

\* ---------------------------------------------------------------- C5
\* C5: when the goal is not reachable from start, every strategy returns
\* success = false, no path, and a visited sequence that holds start.
UnreachableFails ==
    (Returned /\ goal \notin Reachable(graph, start)) =>
        /\ result.success = FALSE
        /\ result.path = None
        /\ Len(result.visited) >= 1
        /\ start \in SeqToSet(result.visited)

UnreachableFailsWitness ==
    /\ Returned /\ goal \notin Reachable(graph, start)
    /\ Len(result.visited) >= 2

\* ---------------------------------------------------------------- C6
\* C6: with a positive step limit L, the step counter never exceeds L, in
\* the loop and in the result.
StepsWithinLimit ==
    IF max_steps # None
    THEN max_steps[1] > 0 =>
            /\ steps <= max_steps[1]
            /\ result.steps <= max_steps[1]
    ELSE TRUE

StepsWithinLimitWitness ==
    IF max_steps # None
    THEN max_steps[1] >= 2 /\ Returned /\ result.steps = max_steps[1]
         /\ frontier # <<>>
    ELSE FALSE

\* ---------------------------------------------------------------- C7
\* C7: with a positive step limit L, a search that ends without success
\* either took exactly L steps or ended on an empty frontier before L; with
\* L = 1 every search takes exactly one step and succeeds only if
\* start = goal.
LimitExhausted ==
    IF max_steps # None /\ Returned
    THEN max_steps[1] > 0 =>
            /\ ~result.success =>
                   \/ result.steps = max_steps[1]
                   \/ frontier = <<>> /\ result.steps < max_steps[1]
            /\ max_steps[1] = 1 =>
                   /\ result.steps = 1
                   /\ result.success => start = goal
    ELSE TRUE

LimitExhaustedWitness ==
    IF max_steps # None /\ Returned
    THEN /\ max_steps[1] = 2 /\ ~result.success /\ result.steps = 2
         /\ frontier # <<>>
    ELSE FALSE

\* ---------------------------------------------------------------- C8
\* C8: with max_steps None or 0 the step counter never ends the loop: the
\* search returns only on expanding the goal or on an empty frontier.
NoLimitUnbounded ==
    (Returned /\ (max_steps = None \/ max_steps = <<0>>)) =>
        \/ result.success
        \/ frontier = <<>>

NoLimitUnboundedWitness ==
    Returned /\ max_steps = <<0>> /\ result.steps > MaxLimit + 1

DiscoveryExpansionOf(discovery, expansion) ==
    /\ start \in DictKeys(discovery)
    /\ DictGet(discovery, start) = 0
    /\ \A c \in DictKeys(expansion) :
          /\ c \in DictKeys(discovery)
          /\ DictGet(discovery, c) <= DictGet(expansion, c)
    /\ \A i, j \in 1..Len(expansion) : i < j => expansion[i][2] < expansion[j][2]

DiscoveryExpansion ==
    /\ DiscoveryExpansionOf(node_discovery, node_expansion)
    /\ Returned =>
          DiscoveryExpansionOf(result.node_discovery, result.node_expansion)

DiscoveryExpansionWitness ==
    /\ Returned
    /\ Len(result.node_expansion) >= 4
    /\ \E c \in DictKeys(result.node_expansion) :
          /\ DictGet(result.node_discovery, c) >= 2
          /\ DictGet(result.node_discovery, c) < DictGet(result.node_expansion, c)

\* ---------------------------------------------------------------- C11
\* C11: with tracing enabled, a successful search has appended a trace
\* record for every step, the last record being the one of the step that
\* expanded the goal.
FinalStepRecorded ==
    (Returned /\ result.success /\ show_exploration) =>
        /\ Len(result.exploration_history) = result.steps
        /\ result.exploration_history[result.steps].step_info.expanded_node
              = goal

\* ---------------------------------------------------------------- C12
\* C12: the run with tracing disabled never holds a trace record, during
\* the search and in its result, and it returns when the traced run on the
\* same inputs returns, with the same success flag, path, visited sequence,
\* step count and discovery and expansion maps.
TracingSideEffectOnly ==
    /\ twin.exploration_history = <<>>
    /\ twin.result.exploration_history = <<>>
    /\ (pc = "returned") <=> (twin.pc = "returned")
    /\ pc = "returned" =>
          /\ twin.result.success = result.success
          /\ twin.result.path = result.path
          /\ twin.result.visited = result.visited
          /\ twin.result.steps = result.steps
          /\ twin.result.node_discovery = result.node_discovery
          /\ twin.result.node_expansion = result.node_expansion

TracingSideEffectOnlyWitness ==
    /\ pc = "returned" /\ twin.pc = "returned"
    /\ show_exploration
    /\ result.success /\ Len(result.path) >= 3
    /\ Len(result.exploration_history) >= 3
    /\ twin.result.exploration_history = <<>>
    /\ twin.result.path = result.path

\* ---------------------------------------------------------------- C13
\* C13: on the 5x5 grid with an open interior, start (1,1), goal (3,3) and
\* no step limit, AStarSearch returns a path of 5 cells (4 moves) and
\* expands at most as many cells as BreadthFirstSearch visits there.
OpenGridAStar ==
    (pc = "returned" /\ twin.pc = "returned" /\ Unlimited
       /\ start = <<1, 1>> /\ goal = <<3, 3>>) =>
        /\ result.success
        /\ Len(result.path) = 5
        /\ Len(result.node_expansion) <= Len(twin.result.visited)

OpenGridAStarWitness ==
    /\ pc = "returned" /\ twin.pc = "returned" /\ Unlimited
    /\ grid = open_grid /\ start = <<1, 1>> /\ goal = <<3, 3>>
    /\ result.success /\ twin.result.success
    /\ Len(result.node_expansion) = 5
    /\ Len(twin.result.visited) = 9

\* ---------------------------------------------------------------- C14
\* C14: a step never changes or removes an entry of node_discovery or of
\* node_expansion (first write wins, also when A* re-inserts a cell with a
\* better g), and every loop iteration adds one new cell to node_expansion:
\* no cell is expanded twice.
\* a cell whose parent was replaced by a cell expanded after its discovery
Reparented(c) ==
    /\ c \in DOMAIN parent /\ c # start
    /\ parent[c] \in DictKeys(node_expansion)
    /\ DictGet(node_expansion, parent[c]) > DictGet(node_discovery, c)

WriteOnce ==
    [][ /\ Len(node_discovery') >= Len(node_discovery)
        /\ \A i \in 1..Len(node_discovery) :
              node_discovery'[i] = node_discovery[i]
        /\ Len(node_expansion') >= Len(node_expansion)
        /\ \A i \in 1..Len(node_expansion) :
              node_expansion'[i] = node_expansion[i]
        /\ steps' = steps + 1 =>
              Len(node_expansion') = Len(node_expansion) + 1 ]_vars

WriteOnceWitness ==
    /\ algorithm = "AStarSearch"
    /\ Returned /\ result.success
    /\ \E c \in DOMAIN parent :
          /\ Reparented(c)
          /\ c \in DictKeys(result.node_expansion)
          /\ DictGet(result.node_discovery, c) < DictGet(node_expansion, parent[c])

\* ---------------------------------------------------------------- C15
\* C15: in every reachable state the discovered cells are the keys of
\* parent; the parent of every discovered cell but start is in the visited
\* set (BFS, DFS) or the closed set (Greedy, A*), and was there in the step
\* that wrote it; the walk along parent from any discovered cell ends at
\* start without meeting a cell twice.
\* the set a parent is taken from
ParentPool(alg, visited_, closed_set_) ==
    IF alg \in Uninformed THEN visited_ ELSE closed_set_

RECURSIVE ParentChain(_, _, _)
\* the cells met walking par from c towards start, at most k hops
ParentChain(par, c, k) ==
    IF c = start \/ k = 0 \/ c \notin DOMAIN par THEN <<c>>
    ELSE <<c>> \o ParentChain(par, par[c], k - 1)

ParentsLeadToStart ==
    /\ [](/\ DOMAIN parent = DictKeys(node_discovery)
          /\ \A c \in DOMAIN parent \ {start} :
                /\ parent[c] \in ParentPool(algorithm, visited, closed_set)
                /\ LET chain == ParentChain(parent, c, Cardinality(DOMAIN graph))
                   IN  /\ chain[Len(chain)] = start
                       /\ \A i, j \in 1..Len(chain) :
                             i # j => chain[i] # chain[j])
    /\ [][\A c \in DOMAIN parent' :
             (c \notin DOMAIN parent \/ parent'[c] # parent[c]) =>
                 parent'[c] \in ParentPool(algorithm, visited', closed_set')]_vars

ParentsLeadToStartWitness ==
    /\ algorithm = "AStarSearch"
    /\ pc = "search"
    /\ \E c \in DOMAIN parent :
          /\ Reparented(c)
          /\ Len(ParentChain(parent, c, Cardinality(DOMAIN graph))) >= 3
    /\ \E d \in DOMAIN parent :
          Len(ParentChain(parent, d, Cardinality(DOMAIN graph))) >= 5

\* ---------------------------------------------------------------- C16
\* C16: in an A* iteration that expands cur and goes on, every neighbor n
\* of cur outside the closed set is updated (parent cur, g the tentative g,
\* one frontier entry with the new f and g) exactly when n is not in the
\* frontier or the tentative g is less than its recorded g, and is left as
\* it was otherwise; a cell of the closed set keeps its parent and g and
\* stays out of the frontier in every step.
\* the cells that have an entry in the frontier fr
FrontierCells(fr) == {fr[i][Len(fr[i])] : i \in 1..Len(fr)}

\* the entries of cell n in the frontier fr
EntriesOf(fr, n) == SelectSeq(fr, LAMBDA e : e[Len(e)] = n)

\* the cell the step to the primed state expanded
ExpandedCell(expansion) == expansion[Len(expansion)][1]

AStarUpdateRule ==
    [][algorithm = "AStarSearch" =>
         /\ \A c \in closed_set :
               /\ c \in closed_set'
               /\ parent'[c] = parent[c]
               /\ g_value'[c] = g_value[c]
               /\ c \notin FrontierCells(frontier')
         /\ (steps' = steps + 1 /\ pc' = "search") =>
               LET cur == ExpandedCell(node_expansion')
               IN  \A n \in SeqToSet(graph_get(graph, cur)) \ closed_set :
                     LET tentative_g == g_value[cur] + get_step_cost(cur, n)
                         fires ==
                             IF n \notin FrontierCells(frontier) THEN TRUE
                             ELSE tentative_g < g_value[n]
                     IN  IF fires
                         THEN /\ parent'[n] = cur
                              /\ g_value'[n] = tentative_g
                              /\ EntriesOf(frontier', n) =
                                   << <<tentative_g
                                          + calculate_manhattan_distance(n, goal),
                                        tentative_g, n>> >>
                         ELSE /\ parent'[n] = parent[n]
                              /\ g_value'[n] = g_value[n]
                              /\ EntriesOf(frontier', n) = EntriesOf(frontier, n)
    ]_vars

AStarUpdateRuleWitness ==
    /\ algorithm = "AStarSearch"
    /\ pc = "search"
    /\ \E c \in DOMAIN parent : Reparented(c) /\ c \in FrontierCells(frontier)
    /\ \E n \in FrontierCells(frontier) : \E m \in closed_set :
          /\ n \in SeqToSet(graph_get(graph, m))
          /\ m # parent[n]
          /\ DictGet(node_expansion, m) > DictGet(node_discovery, n)
          /\ g_value[m] + get_step_cost(m, n) >= g_value[n]

\* ---------------------------------------------------------------- C17
\* C17: in every reachable state of A* the frontier has at most one entry
\* per cell, the cells with an entry are the keys of frontier_dict, each
\* entry (f, g, cell) carries the cell's recorded node_f_value and
\* node_g_value, every recorded f is the recorded g plus the recorded h, and
\* no expanded cell has an entry (no entry under a superseded key is left
\* to be extracted).
AStarFrontierCurrent ==
    algorithm = "AStarSearch" =>
        /\ \A i, j \in 1..Len(frontier) :
              i # j => frontier[i][3] # frontier[j][3]
        /\ FrontierCells(frontier) = DOMAIN frontier_dict
        /\ \A i \in 1..Len(frontier) :
              LET e == frontier[i] IN
              /\ e[1] = node_f_value[e[3]]
              /\ e[2] = node_g_value[e[3]]
              /\ e[1] = frontier_dict[e[3]]
              /\ e[2] = g_value[e[3]]
              /\ e[3] \notin closed_set
        /\ \A c \in DOMAIN node_f_value :
              node_f_value[c] = node_g_value[c] + node_h_value[c]

AStarFrontierCurrentWitness ==
    /\ algorithm = "AStarSearch"
    /\ pc = "search"
    /\ Len(frontier) >= 3
    /\ \E c \in FrontierCells(frontier) :
          /\ Reparented(c)
          /\ node_g_value[c] < DictGet(node_discovery, c)

\* ---------------------------------------------------------------- C18
\* C18: the entry an A* iteration extracts has the least f of the frontier;
\* among the entries of that f it has the greatest g; among the entries of
\* that f and g it is the one inserted, or last re-inserted, first.
IndexOf(seq, x) == CHOOSE i \in 1..Len(seq) : seq[i] = x

\* when cell c was last put into the frontier: <<the step, the position of
\* c among the neighbors examined in that step>>; start is put in before
\* the first step
InsertionStamp(c) ==
    IF c = start THEN <<0, 0>>
    ELSE <<DictGet(node_expansion, parent[c]),
           IndexOf(graph_get(graph, parent[c]), c)>>

AStarExtraction ==
    [][(algorithm = "AStarSearch" /\ steps' = steps + 1) =>
          LET cur == ExpandedCell(node_expansion')
              e == EntriesOf(frontier, cur)[1]
          IN  /\ cur \in FrontierCells(frontier)
              /\ cur \notin FrontierCells(frontier')
              /\ \A i \in 1..Len(frontier) :
                    LET o == frontier[i] IN
                    /\ e[1] <= o[1]
                    /\ o[1] = e[1] => o[2] <= e[2]
                    /\ (o[1] = e[1] /\ o[2] = e[2] /\ o[3] # cur) =>
                          key_less(InsertionStamp(cur), InsertionStamp(o[3]))
    ]_vars

\* cell c was extracted while cell d had an entry in the frontier
ExtractedBefore(c, d) ==
    /\ c \in DictKeys(node_expansion)
    /\ d \in DictKeys(node_discovery)
    /\ DictGet(node_discovery, d) < DictGet(node_expansion, c)
    /\ d \in DictKeys(node_expansion) =>
          DictGet(node_expansion, c) < DictGet(node_expansion, d)

AStarExtractionWitness ==
    /\ algorithm = "AStarSearch"
    /\ pc = "search"
    /\ \E c, d \in DOMAIN node_f_value :
          /\ ExtractedBefore(c, d)
          /\ ~Reparented(d)
          /\ node_f_value[c] = node_f_value[d]
          /\ node_g_value[c] > node_g_value[d]
    /\ \E c, d \in DOMAIN node_f_value :
          /\ c # d
          /\ ExtractedBefore(c, d)
          /\ ~Reparented(d)
          /\ node_f_value[c] = node_f_value[d]
          /\ node_g_value[c] = node_g_value[d]
    /\ \E c \in DictKeys(node_expansion) : Reparented(c)

\* ---------------------------------------------------------------- C19
\* C19: the entry a Greedy iteration extracts carries the heuristic value
\* of its cell, which is the least of the frontier, and among the entries
\* of that value it is the one inserted first.
GreedyExtraction ==
    [][(algorithm = "GreedyBestFirstSearch" /\ steps' = steps + 1) =>
          LET cur == ExpandedCell(node_expansion')
              e == EntriesOf(frontier, cur)[1]
          IN  /\ cur \in FrontierCells(frontier)
              /\ cur \notin FrontierCells(frontier')
              /\ e[1] = calculate_manhattan_distance(cur, goal)
              /\ \A i \in 1..Len(frontier) :
                    LET o == frontier[i] IN
                    /\ o[1] = calculate_manhattan_distance(o[2], goal)
                    /\ e[1] <= o[1]
                    /\ (o[1] = e[1] /\ o[2] # cur) =>
                          key_less(InsertionStamp(cur), InsertionStamp(o[2]))
    ]_vars

GreedyExtractionWitness ==
    /\ algorithm = "GreedyBestFirstSearch"
    /\ pc = "search"
    /\ steps >= 4
    /\ \E c, d \in DOMAIN node_h_value :
          /\ ExtractedBefore(c, d)
          /\ node_h_value[c] = node_h_value[d]
          /\ key_less(d, c)
          /\ DictGet(node_discovery, c) < DictGet(node_discovery, d)

\* ---------------------------------------------------------------- C20
\* C20: a Greedy iteration that expands cur and goes on inserts a neighbor
\* n (parent cur, g and h recorded, one frontier entry) exactly when n is
\* neither in the closed set nor in the frontier, whatever the tentative g;
\* no step puts a cell that was discovered before into the frontier again
\* or changes a recorded parent or g; the extracted cell has the least h of
\* the frontier whatever the recorded costs.
GreedyInsertOnce ==
    [][algorithm = "GreedyBestFirstSearch" =>
         /\ \A c \in DOMAIN parent :
               /\ parent'[c] = parent[c]
               /\ g_value'[c] = g_value[c]
         /\ \A c \in FrontierCells(frontier') \ FrontierCells(frontier) :
               c \notin DOMAIN parent
         /\ steps' = steps + 1 =>
               \A i \in 1..Len(frontier) :
                  calculate_manhattan_distance(
                      ExpandedCell(node_expansion'), goal)
                    <= calculate_manhattan_distance(frontier[i][2], goal)
         /\ (steps' = steps + 1 /\ pc' = "search") =>
               LET cur == ExpandedCell(node_expansion')
               IN  \A n \in SeqToSet(graph_get(graph, cur)) :
                     IF n \notin closed_set' /\ n \notin FrontierCells(frontier)
                     THEN /\ parent'[n] = cur
                          /\ g_value'[n] = g_value[cur] + get_step_cost(cur, n)
                          /\ node_h_value'[n] =
                                calculate_manhattan_distance(n, goal)
                          /\ EntriesOf(frontier', n) =
                                << <<calculate_manhattan_distance(n, goal), n>> >>
                     ELSE /\ EntriesOf(frontier', n) = EntriesOf(frontier, n)
                          /\ n \in DOMAIN parent
                          /\ parent'[n] = parent[n]
    ]_vars

GreedyInsertOnceWitness ==
    /\ algorithm = "GreedyBestFirstSearch"
    /\ pc = "search"
    /\ \E n \in FrontierCells(frontier) : \E m \in closed_set :
          /\ n \in SeqToSet(graph_get(graph, m))
          /\ ExtractedBefore(m, n)
          /\ g_value[m] + get_step_cost(m, n) < g_value[n]
          /\ parent[n] # m
    /\ \E c, d \in DOMAIN g_value :
          /\ ExtractedBefore(c, d)
          /\ g_value[c] + node_h_value[c] > g_value[d] + node_h_value[d]

\* ---------------------------------------------------------------- C21
\* C21: in BFS and DFS the visited set is the set of discovered cells in
\* every reachable state: it holds every frontier cell and every expanded
\* cell, the frontier and the visited sequence hold no cell twice, and a
\* step puts into the frontier only cells that were not visited before and
\* never the cell it expands.
NoRepeat(seq) == \A i, j \in 1..Len(seq) : i # j => seq[i] # seq[j]

VisitedAtDiscoveryStep ==
    algorithm \in Uninformed =>
        /\ \A c \in SeqToSet(frontier') \ SeqToSet(frontier) :
              c \notin visited /\ c \in visited'
        /\ (steps' = steps + 1 =>
              ExpandedCell(node_expansion') \notin SeqToSet(frontier'))

VisitedAtDiscovery ==
    /\ [](algorithm \in Uninformed =>
            /\ NoRepeat(frontier)
            /\ NoRepeat(visited_order)
            /\ SeqToSet(frontier) \subseteq visited
            /\ DictKeys(node_expansion) \subseteq visited
            /\ visited = SeqToSet(visited_order)
            /\ visited = DictKeys(node_discovery))
    /\ [][VisitedAtDiscoveryStep]_vars

VisitedAtDiscoveryWitness ==
    /\ algorithm \in Uninformed
    /\ pc = "search"
    /\ Len(frontier) >= 3
    /\ Len(node_expansion) >= 3
    /\ \E c \in SeqToSet(frontier) :
          Cardinality({m \in DictKeys(node_expansion) :
                          c \in SeqToSet(graph_get(graph, m))}) >= 2

\* ---------------------------------------------------------------- C22
\* C22: BFS is first in, first out: every step expands the oldest cell of
\* the frontier, the cells expanded so far are, in order, the first cells of
\* the visited sequence, the frontier is the rest of the discovered cells in
\* discovery order, and the hop distance from start never decreases from one
\* expanded cell to the next.
BfsFifoStep ==
    (algorithm = "BreadthFirstSearch" /\ steps' = steps + 1) =>
        /\ ExpandedCell(node_expansion') = Head(frontier)
        /\ \A c \in SeqToSet(frontier) :
              DictGet(node_discovery, Head(frontier)) <= DictGet(node_discovery, c)
              /\ IndexOf(visited_order, Head(frontier)) <= IndexOf(visited_order, c)

BfsFifo ==
    /\ [](algorithm = "BreadthFirstSearch" =>
            /\ Len(node_expansion) <= Len(visited_order)
            /\ \A i \in 1..Len(node_expansion) :
                  node_expansion[i][1] = visited_order[i]
            /\ frontier = SubSeq(visited_order, Len(node_expansion) + 1,
                                 Len(visited_order))
            /\ \A i \in 1..(Len(node_expansion) - 1) :
                  ShortestHops(graph, start, node_expansion[i][1])
                      <= ShortestHops(graph, start, node_expansion[i + 1][1]))
    /\ [][BfsFifoStep]_vars

BfsFifoWitness ==
    /\ algorithm = "BreadthFirstSearch"
    /\ Len(node_expansion) >= 5
    /\ Len(frontier) >= 2
    /\ ShortestHops(graph, start, node_expansion[Len(node_expansion)][1]) >= 3
    /\ \E i \in 1..(Len(node_expansion) - 1) :
          ShortestHops(graph, start, node_expansion[i][1])
              = ShortestHops(graph, start, node_expansion[i + 1][1])

\* ---------------------------------------------------------------- C23
\* C23: DFS is last in, first out: every step expands the cell of the
\* frontier that was inserted most recently; when the step before it
\* discovered cells, that is the last of them in the neighbor order of the
\* cell expanded then, and otherwise it is the most recently inserted of the
\* older frontier cells.
DiscoveredAt(discovery, n) ==
    {c \in DictKeys(discovery) : DictGet(discovery, c) = n}

DfsLifoStep ==
    (algorithm = "DepthFirstSearch" /\ steps' = steps + 1) =>
        LET cur == ExpandedCell(node_expansion')
            fresh == DiscoveredAt(node_discovery, steps)
        IN  /\ cur = frontier[Len(frontier)]
            /\ \A c \in SeqToSet(frontier) :
                  IndexOf(visited_order, c) <= IndexOf(visited_order, cur)
            /\ (steps >= 1 /\ fresh # {}) =>
                  LET nbrs == graph_get(graph, ExpandedCell(node_expansion))
                  IN  /\ cur \in fresh
                      /\ \A c \in fresh : IndexOf(nbrs, c) <= IndexOf(nbrs, cur)
            /\ (steps >= 1 /\ fresh = {}) =>
                  DictGet(node_discovery, cur) < steps

DfsLifo == [][DfsLifoStep]_vars

DfsLifoWitness ==
    /\ algorithm = "DepthFirstSearch"
    /\ \E i, j \in 1..(Len(node_expansion) - 1) :
          /\ DiscoveredAt(node_discovery, i) = {}
          /\ Cardinality(DiscoveredAt(node_discovery, j)) >= 2
          /\ Len(frontier) >= 1

\* ---------------------------------------------------------------- C24
\* C24: with no step limit every strategy returns after finitely many steps:
\* each step expands a cell that no earlier step expanded, so the step count
\* never exceeds the number of cells reachable from start, and the run
\* eventually returns.
ExpandsNewCellStep ==
    (Unlimited /\ steps' = steps + 1) =>
        /\ ExpandedCell(node_expansion') \notin DictKeys(node_expansion)
        /\ ExpandedCell(node_expansion') \in Reachable(graph, start)

UnlimitedTerminates ==
    /\ [](Unlimited =>
            /\ steps <= Cardinality(Reachable(graph, start))
            /\ Len(node_expansion) = steps)
    /\ [][ExpandsNewCellStep]_vars
    /\ (Unlimited ~> pc = "returned")

UnlimitedTerminatesWitness ==
    /\ Unlimited
    /\ Returned
    /\ ~result.success
    /\ result.steps = Cardinality(Reachable(graph, start))
    /\ result.steps >= 3

\* ---------------------------------------------------------------- C25
\* C25: a run without a step limit (max_steps None or 0) returns success
\* exactly when the goal is reachable from start; when start is the goal it
\* succeeds at step 1 with the path [start].
UnlimitedComplete ==
    (Returned /\ max_steps \in {None, <<0>>}) =>
        /\ result.success <=> goal \in Reachable(graph, start)
        /\ start = goal =>
              /\ result.success
              /\ result.steps = 1
              /\ result.path = <<start>>

UnlimitedCompleteWitness ==
    /\ Returned
    /\ max_steps = <<0>>
    /\ result.success
    /\ result.steps > MaxLimit + 1
    /\ Len(frontier) = 0

\* ---------------------------------------------------------------- C26
\* C26: when a run without a step limit fails because the frontier is empty,
\* the visited sequence of the result holds exactly the cells reachable from
\* start, each once, and the keys of node_discovery and of node_expansion
\* are both that set (every strategy).
ExhaustedVisitsReachable ==
    (Returned /\ ~result.success /\ Unlimited /\ frontier = <<>>) =>
        /\ SeqToSet(result.visited) = Reachable(graph, start)
        /\ NoRepeat(result.visited)
        /\ DictKeys(result.node_discovery) = Reachable(graph, start)
        /\ DictKeys(result.node_expansion) = Reachable(graph, start)
        /\ NoRepeat([i \in 1..Len(result.node_expansion) |->
                        result.node_expansion[i][1]])

ExhaustedVisitsReachableWitness ==
    /\ Returned
    /\ ~result.success
    /\ Unlimited
    /\ frontier = <<>>
    /\ Len(result.visited) >= 12
    /\ Reachable(graph, start) # DOMAIN graph

\* ---------------------------------------------------------------- C27
\* C27: in A* (unit step costs, Manhattan heuristic) the g recorded for a
\* cell when it is extracted into the closed set is the least cost of any
\* path from start to it, so no neighbor found in the closed set could have
\* been reached more cheaply through the cell being expanded.
RECURSIVE LeastCosts(_, _)
\* the pairs <<cell, least cost of a path from start to it>>, grown from D by
\* one more move until nothing changes
LeastCosts(gr, D) ==
    LET cand(n) ==
            {d[2] + get_step_cost(d[1], n) :
                d \in {x \in D : n \in SeqToSet(graph_get(gr, x[1]))}}
            \cup {d[2] : d \in {x \in D : x[1] = n}}
        E == {<<n, SetMin(cand(n))>> : n \in {x \in DOMAIN gr : cand(x) # {}}}
    IN  IF E = D THEN D ELSE LeastCosts(gr, E)

ClosedCostsExact ==
    algorithm = "AStarSearch" =>
        LET D == LeastCosts(graph, {<<start, 0>>})
        IN  /\ \A c \in closed_set :
                  /\ <<c, g_value[c]>> \in D
                  /\ node_g_value[c] = g_value[c]
            /\ \A c \in closed_set :
                  \A n \in SeqToSet(graph_get(graph, c)) \cap closed_set :
                      g_value[n] <= g_value[c] + get_step_cost(c, n)

ClosedCostsExactWitness ==
    /\ algorithm = "AStarSearch"
    /\ \E c \in closed_set :
          /\ Reparented(c)
          /\ g_value[c] = MinPathCost(graph, start, c)
          /\ g_value[c] >= 3

\* ---------------------------------------------------------------- C28
\* C28: for every result that run() returns, the zero-step failure result
\* after a caught fault included, SearchResult.__str__ returns a string and
\* raises nothing.
StrCompletes ==
    pc = "returned" => str(result) = "text"

\* ---------------------------------------------------------------- C29
\* C29: in every trace record of each of the four strategies, frontier_before
\* is the frontier as it stood before the step's extraction, so it holds the
\* cell the step expands, and frontier_after is the frontier after the step's
\* neighbor insertions.
SnapshotCells(fr) ==
    IF algorithm \in Uninformed THEN SeqToSet(fr) ELSE FrontierCells(fr)

FrontierSnapshotsStep ==
    Len(exploration_history') = Len(exploration_history) + 1 =>
        LET info == exploration_history'[Len(exploration_history')].step_info
        IN  /\ SeqToSet(info.frontier_before) = SeqToSet(frontier)
            /\ info.expanded_node \in SnapshotCells(info.frontier_before)
            /\ info.frontier_after = frontier'

FrontierSnapshots == [][FrontierSnapshotsStep]_vars

\* ---------------------------------------------------------------- C30
\* C30: in Greedy and A*, whenever the loop condition is evaluated the keys
\* of frontier_dict are the cells with an entry in the frontier, one entry
\* each, frontier_dict[c] is the priority stored in the entry of c, no
\* frontier cell is in the closed set, and every frontier cell has been
\* recorded in node_discovery.
FrontierIndexAgrees ==
    algorithm \in {"AStarSearch", "GreedyBestFirstSearch"} =>
        /\ DOMAIN frontier_dict = FrontierCells(frontier)
        /\ Cardinality(DOMAIN frontier_dict) = Len(frontier)
        /\ \A i \in 1..Len(frontier) :
              frontier_dict[frontier[i][Len(frontier[i])]] = frontier[i][1]
        /\ FrontierCells(frontier) \cap closed_set = {}
        /\ FrontierCells(frontier) \subseteq DictKeys(node_discovery)

FrontierIndexAgreesWitness ==
    /\ algorithm = "GreedyBestFirstSearch"
    /\ pc = "search"
    /\ Len(frontier) >= 3
    /\ Cardinality(closed_set) >= 3
    /\ \E c \in FrontierCells(frontier) :
          Cardinality(SeqToSet(graph_get(graph, c)) \cap closed_set) >= 2

====
